---- MODULE Spec2Model ----
(***************************************************************************)
(* A model of JSReportExportConverter (src/main.py): the MIME classifier,  *)
(* the three-pass asset discovery, the five-pass placeholder resolver, the *)
(* template assembler and convert()'s try/finally.                         *)
(*                                                                         *)
(* Text is modelled character by character: a string is a sequence of      *)
(* one-character strings, bytes are integers 0..255, and the regular       *)
(* expressions of the source are matchers over such sequences.             *)
(***************************************************************************)
EXTENDS Integers, Sequences, FiniteSets, TLC

\* ------------------------------------------------------------------------
\* Characters and strings
\* ------------------------------------------------------------------------

\* The printable ASCII characters in code order, from 32 (space) to 126 (~);
\* code 96, the grave accent, is written "<grave>".
Printable ==
  << " ", "!", "\"", "#", "$", "%", "&", "'", "(", ")", "*", "+", ",", "-", ".", "/",
     "0", "1", "2", "3", "4", "5", "6", "7", "8", "9", ":", ";", "<", "=", ">", "?",
     "@", "A", "B", "C", "D", "E", "F", "G", "H", "I", "J", "K", "L", "M", "N", "O",
     "P", "Q", "R", "S", "T", "U", "V", "W", "X", "Y", "Z", "[", "\\", "]", "^", "_",
     "<grave>", "a", "b", "c", "d", "e", "f", "g", "h", "i", "j", "k", "l", "m", "n", "o",
     "p", "q", "r", "s", "t", "u", "v", "w", "x", "y", "z", "{", "|", "}", "~" >>

\* A code point the alphabet above cannot write (a control character or a
\* character beyond ASCII): decoded text holds this mark in its place.
Unwritable == "<?>"

\* body(value), with the value computed once before the body uses it.
Let(value, body(_)) == CHOOSE r \in {body(x) : x \in {value}} : TRUE

\* The characters of a string literal, as a sequence.
Chars(str) == [i \in 1..Len(str) |-> SubSeq(str, i, i)]

IndexOf(seq, c) == CHOOSE i \in 1..Len(seq) : seq[i] = c

\* ord(c) of a character of the alphabet.
Ord(c) == IF c = "\n" THEN 10 ELSE IF c = "\t" THEN 9 ELSE 31 + IndexOf(Printable, c)

\* chr(n) of a code point.
Chr(n) ==
  IF n = 10 THEN "\n"
  ELSE IF n = 9 THEN "\t"
  ELSE IF n >= 32 /\ n <= 126 THEN Printable[n - 31]
  ELSE Unwritable

Uppers == {Printable[i] : i \in 34..59}
Lowers == {Printable[i] : i \in 66..91}
Digits == {Printable[i] : i \in 17..26}

\* str.lower() of one character, and of a string.
LowerChar(c) == IF c \in Uppers THEN Chr(Ord(c) + 32) ELSE c
Lower(s) == [i \in 1..Len(s) |-> LowerChar(s[i])]

\* The character at position i, or "" past the end of the string.
At(s, i) == IF i >= 1 /\ i <= Len(s) THEN s[i] ELSE ""

\* s[i..j-1]: the slice from position i up to, not including, position j.
Slice(s, i, j) == IF j <= i THEN << >> ELSE SubSeq(s, i, j - 1)

\* s.startswith(p) at position i.
HasAt(s, i, p) ==
  /\ i >= 1
  /\ i + Len(p) - 1 <= Len(s)
  /\ \A k \in 1..Len(p) : s[i + k - 1] = p[k]

StartsWith(s, p) == HasAt(s, 1, p)
EndsWith(s, p) == Len(s) >= Len(p) /\ HasAt(s, Len(s) - Len(p) + 1, p)

\* The regular expressions' character classes.
IsSpace(c) == c \in {" ", "\t", "\n"}
IsQuote(c) == c \in {"'", "\""}
IsWord(c) == c \in Uppers \cup Lowers \cup Digits \cup {"_"}
InClass(cls, c) ==
  /\ c # ""
  /\ CASE cls = "space" -> IsSpace(c)                         \* \s
       [] cls = "notquote" -> ~IsQuote(c)                     \* [^'"]
       [] cls = "name" -> ~IsSpace(c) /\ c # "@"              \* [^\s@]
       [] cls = "word" -> IsWord(c)                           \* \w
       [] cls = "urlchar" -> ~IsQuote(c) /\ c \notin {"(", ")"} \* [^'"\(\)]
       [] cls = "b64" -> (IsWord(c) /\ c # "_") \/ c \in {"+", "/"} \* [A-Za-z0-9+/]
       [] OTHER -> FALSE

Min(S) == CHOOSE x \in S : \A y \in S : x <= y
Max(S) == CHOOSE x \in S : \A y \in S : x >= y

\* The position after the longest run of characters of a class from i
\* (a greedy X* of the regular expression engine).
SkipClass(cls, s, i) ==
  IF i < 1 \/ i > Len(s) THEN i
  ELSE LET stops == {j \in i..Len(s) : ~InClass(cls, s[j])}
       IN IF stops = {} THEN Len(s) + 1 ELSE Min(stops)

\* str.find(sub, start): the first position >= i where sub occurs, 0 if none.
Find(s, sub, i) ==
  LET hits == {j \in i..(Len(s) - Len(sub) + 1) : HasAt(s, j, sub)}
  IN IF hits = {} THEN 0 ELSE Min(hits)

\* str.replace(old, new): every non-overlapping occurrence, left to right.
RECURSIVE ReplaceFrom(_, _, _, _)
ReplaceFrom(s, old, new, i) ==
  Let(Find(s, old, i), LAMBDA p :
    IF p = 0 THEN Slice(s, i, Len(s) + 1)
    ELSE Let(p + Len(old), LAMBDA next :
           Slice(s, i, p) \o new \o ReplaceFrom(s, old, new, next)))

StrReplace(s, old, new) == IF old = << >> THEN s ELSE ReplaceFrom(s, old, new, 1)

\* str.rfind(c): the last position of character c in s, 0 if none.
LastIndex(s, c) ==
  LET hits == {j \in 1..Len(s) : s[j] = c}
  IN IF hits = {} THEN 0 ELSE Max(hits)

\* s.split(c)[-1]: what follows the last c (all of s when there is none).
LastSegment(s, c) == Slice(s, LastIndex(s, c) + 1, Len(s) + 1)

\* ------------------------------------------------------------------------
\* base64 and UTF-8 (the library calls of lines 33, 71, 92 and 123)
\* ------------------------------------------------------------------------

\* The base64 digit of a value 0..63: A-Z, a-z, 0-9, +, /.
B64Char(n) ==
  IF n < 26 THEN Printable[34 + n]
  ELSE IF n < 52 THEN Printable[66 + (n - 26)]
  ELSE IF n < 62 THEN Printable[17 + (n - 52)]
  ELSE IF n = 62 THEN "+" ELSE "/"

\* The value of a base64 digit.
B64Val(c) == CHOOSE n \in 0..63 : B64Char(n) = c

\* base64.b64encode(bytes): three bytes to four digits, "=" padded.
B64Encode(bs) ==
  LET n == Len(bs)
      byte(k) == IF k <= n THEN bs[k] ELSE 0
      \* the 24 bits of group g (from 0), and digit d (0..3) of the output
      w(g) == byte(3 * g + 1) * 65536 + byte(3 * g + 2) * 256 + byte(3 * g + 3)
      digit(g, d) ==
        CASE d = 0 -> B64Char(w(g) \div 262144)
          [] d = 1 -> B64Char((w(g) \div 4096) % 64)
          [] d = 2 -> IF 3 * g + 2 <= n THEN B64Char((w(g) \div 64) % 64) ELSE "="
          [] OTHER -> IF 3 * g + 3 <= n THEN B64Char(w(g) % 64) ELSE "="
  IN [k \in 1..(4 * ((n + 2) \div 3)) |-> digit((k - 1) \div 4, (k - 1) % 4)]

\* base64.b64decode(s) in its default, lenient mode: characters outside the
\* alphabet are skipped, a pad sequence that completes a quad ends the
\* input, and leftover digits are an error ("Incorrect padding").
RECURSIVE B64Loop(_, _, _, _, _, _)
B64Loop(s, i, quad, left, pads, out) ==
  IF i > Len(s) THEN [ok |-> quad = 0, bytes |-> out]
  ELSE IF s[i] = "=" THEN
    IF quad >= 2 /\ quad + pads + 1 >= 4 THEN [ok |-> TRUE, bytes |-> out]
    ELSE B64Loop(s, i + 1, quad, left, pads + 1, out)
  ELSE IF ~InClass("b64", s[i]) THEN B64Loop(s, i + 1, quad, left, pads, out)
  ELSE Let(B64Val(s[i]), LAMBDA v :
    CASE quad = 0 -> B64Loop(s, i + 1, 1, v, 0, out)
      [] quad = 1 -> Let(Append(out, left * 4 + v \div 16), LAMBDA o :
                       B64Loop(s, i + 1, 2, v % 16, 0, o))
      [] quad = 2 -> Let(Append(out, left * 16 + v \div 4), LAMBDA o :
                       B64Loop(s, i + 1, 3, v % 4, 0, o))
      [] OTHER -> Let(Append(out, left * 64 + v), LAMBDA o :
                       B64Loop(s, i + 1, 0, 0, 0, o)))

B64Decode(s) == B64Loop(s, 1, 0, 0, 0, << >>)

\* str.encode('utf-8') of a string of the alphabet (all of it ASCII).
Utf8Encode(s) == [i \in 1..Len(s) |-> Ord(s[i])]

IsCont(b) == b >= 128 /\ b <= 191

\* The number of bytes of the well-formed UTF-8 sequence that starts at
\* position i, or 0 when the bytes there are not well-formed.
Utf8SeqLen(bs, i) ==
  LET b == bs[i]
      c(k) == IF i + k <= Len(bs) THEN bs[i + k] ELSE 0
  IN IF b < 128 THEN 1
     ELSE IF b >= 194 /\ b <= 223 THEN (IF IsCont(c(1)) THEN 2 ELSE 0)
     ELSE IF b >= 224 /\ b <= 239 THEN
       (IF /\ IsCont(c(1)) /\ IsCont(c(2))
           /\ (b = 224 => c(1) >= 160)
           /\ (b = 237 => c(1) <= 159) THEN 3 ELSE 0)
     ELSE IF b >= 240 /\ b <= 244 THEN
       (IF /\ IsCont(c(1)) /\ IsCont(c(2)) /\ IsCont(c(3))
           /\ (b = 240 => c(1) >= 144)
           /\ (b = 244 => c(1) <= 143) THEN 4 ELSE 0)
     ELSE 0

\* bytes.decode('utf-8'): the text, or a failure (UnicodeDecodeError).
RECURSIVE Utf8Loop(_, _, _)
Utf8Loop(bs, i, out) ==
  IF i > Len(bs) THEN [ok |-> TRUE, text |-> out]
  ELSE Let(Utf8SeqLen(bs, i), LAMBDA n :
    IF n = 0 THEN [ok |-> FALSE, text |-> << >>]
    ELSE Let(Append(out, IF n = 1 THEN Chr(bs[i]) ELSE Unwritable), LAMBDA o :
           Let(i + n, LAMBDA next : Utf8Loop(bs, next, o))))

Utf8Decode(bs) == Utf8Loop(bs, 1, << >>)

\* re.match(r'^[A-Za-z0-9+/]*={0,2}$', content): base64 digits, at most two
\* "=", then the end of the string ($ also matches before a final newline).
LooksBase64(content) ==
  LET d == SkipClass("b64", content, 1)
      e1 == IF At(content, d) = "=" THEN d + 1 ELSE d
      e2 == IF e1 > d /\ At(content, e1) = "=" THEN e1 + 1 ELSE e1
      AtEnd(e) == e = Len(content) + 1 \/ (e = Len(content) /\ content[e] = "\n")
  IN AtEnd(e2) \/ AtEnd(e1) \/ AtEnd(d)

\* decode_base64_if_needed: the decoded text when the content looks like
\* base64 and decodes to UTF-8, the content itself otherwise.
decode_base64_if_needed(content) ==
  IF LooksBase64(content) THEN
    Let(B64Decode(content), LAMBDA raw :
      IF ~raw.ok THEN content
      ELSE Let(Utf8Decode(raw.bytes), LAMBDA txt :
             IF txt.ok THEN txt.text ELSE content))
  ELSE content

\* ------------------------------------------------------------------------
\* get_mime_type
\* ------------------------------------------------------------------------

\* "No value": None, which `if not mime_type` treats like the empty string.
None == << >>

\* posixpath.splitext(p)[1]: the extension from the last dot of the last path
\* segment, dot included; leading dots of the segment start no extension.
SplitExt(p) ==
  LET sep == LastIndex(p, "/")
      dot == LastIndex(p, ".")
  IN IF dot > sep /\ \E k \in (sep + 1)..(dot - 1) : p[k] # "."
     THEN Slice(p, dot, Len(p) + 1)
     ELSE << >>

\* The platform's extension table, as mimetypes.init() leaves it: the
\* built-in entries, and where the system has a mime.types file (fonts) its
\* entries: the font types, and its own type for .js.
SysTypesMap(ext, fonts) ==
  CASE ext = Chars(".js") /\ fonts -> Chars("text/javascript")
    [] ext = Chars(".js") /\ ~fonts -> Chars("application/javascript")
    [] ext = Chars(".css") -> Chars("text/css")
    [] ext = Chars(".svg") -> Chars("image/svg+xml")
    [] ext = Chars(".png") -> Chars("image/png")
    [] ext = Chars(".jpg") -> Chars("image/jpeg")
    [] ext = Chars(".jpeg") -> Chars("image/jpeg")
    [] ext = Chars(".gif") -> Chars("image/gif")
    [] ext = Chars(".json") -> Chars("application/json")
    [] ext = Chars(".bin") -> Chars("application/octet-stream")
    [] ext = Chars(".ttf") /\ fonts -> Chars("font/ttf")
    [] ext = Chars(".woff") /\ fonts -> Chars("font/woff")
    [] ext = Chars(".woff2") /\ fonts -> Chars("font/woff2")
    [] ext = Chars(".eot") /\ fonts -> Chars("application/vnd.ms-fontobject")
    [] OTHER -> None

\* mimetypes.guess_type(filename)[0] for a plain file name: the table entry
\* of the lowercased extension, None when there is none.
GuessType(filename, fonts) == SysTypesMap(Lower(SplitExt(filename)), fonts)

\* get_mime_type without the .lower() of line 42.
GetMimeTypeCaseSensitive(filename, fonts) ==
  LET mime_type == GuessType(filename, fonts)
      extension == IF \E i \in 1..Len(filename) : filename[i] = "."
                   THEN LastSegment(filename, ".")
                   ELSE << >>
  IN IF mime_type = None THEN
       CASE extension = Chars("js") -> Chars("application/javascript")
         [] extension = Chars("css") -> Chars("text/css")
         [] extension = Chars("ttf") -> Chars("font/ttf")
         [] extension = Chars("woff") -> Chars("font/woff")
         [] extension = Chars("woff2") -> Chars("font/woff2")
         [] extension = Chars("eot") -> Chars("application/vnd.ms-fontobject")
         [] extension = Chars("svg") -> Chars("image/svg+xml")
         [] OTHER -> Chars("application/octet-stream")
     ELSE mime_type

\* get_mime_type(filename) on a platform with the system's table entries or
\* without.
get_mime_type(filename, fonts) ==
  LET mime_type == GuessType(filename, fonts)
      extension == IF \E i \in 1..Len(filename) : filename[i] = "."
                   THEN LastSegment(Lower(filename), ".")
                   ELSE << >>
  IN IF mime_type = None THEN
       CASE extension = Chars("js") -> Chars("application/javascript")
         [] extension = Chars("css") -> Chars("text/css")
         [] extension = Chars("ttf") -> Chars("font/ttf")
         [] extension = Chars("woff") -> Chars("font/woff")
         [] extension = Chars("woff2") -> Chars("font/woff2")
         [] extension = Chars("eot") -> Chars("application/vnd.ms-fontobject")
         [] extension = Chars("svg") -> Chars("image/svg+xml")
         [] OTHER -> Chars("application/octet-stream")
     ELSE mime_type

\* ------------------------------------------------------------------------
\* replace_assets_in_content: the five regular expressions
\* ------------------------------------------------------------------------

\* A failed match. A match is [end |-> the position after it, g1, g2 |-> its
\* two groups]; the matched text begins where the match was tried.
NoMatch == [end |-> 0, g1 |-> << >>, g2 |-> << >>]

\* ['"]([^'"]+)['"] with the opening quote at position q: the position after
\* the closing quote, 0 when there is no such text.
Quoted(s, q) ==
  IF ~IsQuote(At(s, q)) THEN 0
  ELSE Let(SkipClass("notquote", s, q + 1), LAMBDA e :
         IF e > q + 1 /\ IsQuote(At(s, e)) THEN e + 1 ELSE 0)

\* \s*['"]([^'"]+)['"]\s*['"]([^'"]+)['"] from position j: the quoted name
\* and the quoted mode of the two {{asset ...}} syntaxes.
QuotedPair(s, j) ==
  Let(SkipClass("space", s, j), LAMBDA q1 :
  Let(Quoted(s, q1), LAMBDA e1 :
    IF e1 = 0 THEN NoMatch
    ELSE Let(SkipClass("space", s, e1), LAMBDA q2 :
         Let(Quoted(s, q2), LAMBDA e2 :
           IF e2 = 0 THEN NoMatch
           ELSE [end |-> e2, g1 |-> Slice(s, q1 + 1, e1 - 1),
                 g2 |-> Slice(s, q2 + 1, e2 - 1)]))))

\* standard_pattern: {{\s*asset\s*['"]([^'"]+)['"]\s*['"]([^'"]+)['"]\s*}}
MatchStandard(s, i) ==
  IF ~HasAt(s, i, Chars("{{")) THEN NoMatch
  ELSE Let(SkipClass("space", s, i + 2), LAMBDA a :
    IF ~HasAt(s, a, Chars("asset")) THEN NoMatch
    ELSE Let(QuotedPair(s, a + 5), LAMBDA p :
      IF p.end = 0 THEN NoMatch
      ELSE Let(SkipClass("space", s, p.end), LAMBDA z :
             IF HasAt(s, z, Chars("}}")) THEN [p EXCEPT !.end = z + 2] ELSE NoMatch)))

\* alt_pattern: {#asset\s+([^\s@]+)\s+@encoding=(\w+)}
MatchAlt(s, i) ==
  IF ~HasAt(s, i, Chars("{#asset")) THEN NoMatch
  ELSE Let(SkipClass("space", s, i + 7), LAMBDA n1 :
       Let(SkipClass("name", s, n1), LAMBDA n2 :
       Let(SkipClass("space", s, n2), LAMBDA e1 :
         IF ~(n1 > i + 7 /\ n2 > n1 /\ e1 > n2 /\ HasAt(s, e1, Chars("@encoding=")))
         THEN NoMatch
         ELSE Let(SkipClass("word", s, e1 + 10), LAMBDA w2 :
                IF w2 > e1 + 10 /\ At(s, w2) = "}"
                THEN [end |-> w2 + 1, g1 |-> Slice(s, n1, n2),
                      g2 |-> Slice(s, e1 + 10, w2)]
                ELSE NoMatch))))

\* src_pattern: src\s*=\s*['"]{{asset\s*['"]([^'"]+)['"]\s*['"]([^'"]+)['"]}}['"]
MatchSrc(s, i) ==
  IF ~HasAt(s, i, Chars("src")) THEN NoMatch
  ELSE Let(SkipClass("space", s, i + 3), LAMBDA eq :
       Let(SkipClass("space", s, eq + 1), LAMBDA q :
         IF ~(At(s, eq) = "=" /\ IsQuote(At(s, q)) /\ HasAt(s, q + 1, Chars("{{asset")))
         THEN NoMatch
         ELSE Let(QuotedPair(s, q + 8), LAMBDA p :
                IF p.end # 0 /\ HasAt(s, p.end, Chars("}}")) /\ IsQuote(At(s, p.end + 2))
                THEN [p EXCEPT !.end = p.end + 3] ELSE NoMatch)))

\* url_alt_pattern: url\s*\(\s*{#asset\s+([^\s@]+)\s+@encoding=(\w+)}\s*\)
MatchUrlAlt(s, i) ==
  IF ~HasAt(s, i, Chars("url")) THEN NoMatch
  ELSE Let(SkipClass("space", s, i + 3), LAMBDA op :
    IF At(s, op) # "(" THEN NoMatch
    ELSE Let(SkipClass("space", s, op + 1), LAMBDA t :
         Let(MatchAlt(s, t), LAMBDA a :
           IF a.end = 0 THEN NoMatch
           ELSE Let(SkipClass("space", s, a.end), LAMBDA z :
                  IF At(s, z) = ")" THEN [a EXCEPT !.end = z + 1] ELSE NoMatch))))

\* ([^'"\(\)]+)['"]?\s*\) with the group starting at position g.
UrlTail(s, g) ==
  Let(SkipClass("urlchar", s, g), LAMBDA g2 :
    IF g2 <= g THEN NoMatch
    ELSE Let(SkipClass("space", s, IF IsQuote(At(s, g2)) THEN g2 + 1 ELSE g2), LAMBDA z :
           IF At(s, z) = ")"
           THEN [end |-> z + 1, g1 |-> Slice(s, g, g2), g2 |-> << >>]
           ELSE NoMatch))

\* url_pattern: url\s*\(\s*['"]?([^'"\(\)]+)['"]?\s*\)
\* The group's class holds the white space too: the engine first lets \s*
\* take all of it, and gives the last blank back to the group only when no
\* match follows otherwise.
MatchUrl(s, i) ==
  IF ~HasAt(s, i, Chars("url")) THEN NoMatch
  ELSE Let(SkipClass("space", s, i + 3), LAMBDA op :
    IF At(s, op) # "(" THEN NoMatch
    ELSE Let(SkipClass("space", s, op + 1), LAMBDA q :
         Let(UrlTail(s, IF IsQuote(At(s, q)) THEN q + 1 ELSE q), LAMBDA greedy :
           IF greedy.end # 0 THEN greedy
           ELSE IF q > op + 1 THEN UrlTail(s, q - 1)
           ELSE NoMatch)))

Match(pattern, s, i) ==
  CASE pattern = "standard" -> MatchStandard(s, i)
    [] pattern = "alt" -> MatchAlt(s, i)
    [] pattern = "src" -> MatchSrc(s, i)
    [] pattern = "url_alt" -> MatchUrlAlt(s, i)
    [] pattern = "url" -> MatchUrl(s, i)

\* re.finditer(pattern, content): the matches from left to right, none
\* overlapping another, each with its text (group 0).
RECURSIVE FindIter(_, _, _)
FindIter(pattern, s, i) ==
  Let({j \in i..Len(s) : Match(pattern, s, j).end # 0}, LAMBDA starts :
    IF starts = {} THEN << >>
    ELSE Let(Min(starts), LAMBDA j :
         Let(Match(pattern, s, j), LAMBDA m :
         Let(m.end, LAMBDA next :
           << [g0 |-> Slice(s, j, m.end), g1 |-> m.g1, g2 |-> m.g2] >>
           \o FindIter(pattern, s, next)))))

\* ------------------------------------------------------------------------
\* replace_assets_in_content: the five passes
\* ------------------------------------------------------------------------
\* A registry (self.assets) is a function from asset names to records
\* [content, mime_type].

\* f"data:{asset_data['mime_type']};base64,{asset_data['content']}"
DataUri(asset_data) ==
  Chars("data:") \o asset_data.mime_type \o Chars(";base64,") \o asset_data.content

\* The standard pass with a lookup that defaults (self.assets.get(name, ''))
\* where the source tests membership: an unregistered name is replaced too.
StandardStepDefaulting(assets, content, match) ==
  IF match.g1 \in DOMAIN assets THEN
    LET asset_data == assets[match.g1]
        replacement ==
          IF match.g2 = Chars("utf8") THEN asset_data.content
          ELSE IF match.g2 = Chars("dataURI") THEN DataUri(asset_data)
          ELSE << >>
    IN Let(replacement, LAMBDA new : StrReplace(content, match.g0, new))
  ELSE StrReplace(content, match.g0, << >>)

\* The body of the standard pass's loop for one match.
StandardStep(assets, content, match) ==
  IF match.g1 \in DOMAIN assets THEN
    LET asset_data == assets[match.g1]
        replacement ==
          IF match.g2 = Chars("utf8") THEN asset_data.content
          ELSE IF match.g2 = Chars("dataURI") THEN DataUri(asset_data)
          ELSE << >>
    IN Let(replacement, LAMBDA new : StrReplace(content, match.g0, new))
  ELSE content

\* The body of the alternate pass's loop for one match.
AltStep(assets, content, match) ==
  IF match.g1 \in DOMAIN assets /\ Lower(match.g2) = Chars("datauri")
  THEN Let(DataUri(assets[match.g1]), LAMBDA new : StrReplace(content, match.g0, new))
  ELSE content

\* The body of the src pass's loop for one match.
SrcStep(assets, content, match) ==
  IF match.g1 \in DOMAIN assets /\ match.g2 = Chars("dataURI")
  THEN Let(Chars("src=\"") \o DataUri(assets[match.g1]) \o Chars("\""),
           LAMBDA new : StrReplace(content, match.g0, new))
  ELSE content

\* The body of the url-with-alternate-tag pass's loop for one match.
UrlAltStep(assets, content, match) ==
  IF match.g1 \in DOMAIN assets /\ Lower(match.g2) = Chars("datauri")
  THEN Let(Chars("url(\"") \o DataUri(assets[match.g1]) \o Chars("\")"),
           LAMBDA new : StrReplace(content, match.g0, new))
  ELSE content

\* The bare url() pass without its `if url.startswith('data:'): continue`.
UrlStepNoDataGuard(assets, content, match) ==
  Let(LastSegment(match.g1, "/"), LAMBDA asset_name :
    IF asset_name \in DOMAIN assets
    THEN Let(Chars("url(\"") \o DataUri(assets[asset_name]) \o Chars("\")"),
             LAMBDA new : StrReplace(content, match.g0, new))
    ELSE content)

\* The body of the bare url() pass's loop for one match.
UrlStep(assets, content, match) ==
  LET url == match.g1 IN
  IF StartsWith(url, Chars("data:")) THEN content
  ELSE Let(LastSegment(url, "/"), LAMBDA asset_name :
    IF asset_name \in DOMAIN assets
    THEN Let(Chars("url(\"") \o DataUri(assets[asset_name]) \o Chars("\")"),
             LAMBDA new : StrReplace(content, match.g0, new))
    ELSE content)

Step(pattern, assets, content, match) ==
  CASE pattern = "standard" -> StandardStep(assets, content, match)
    [] pattern = "alt" -> AltStep(assets, content, match)
    [] pattern = "src" -> SrcStep(assets, content, match)
    [] pattern = "url_alt" -> UrlAltStep(assets, content, match)
    [] pattern = "url" -> UrlStep(assets, content, match)

\* `for match in re.finditer(pattern, content): ... content = content.replace(...)`:
\* the matches are those of the content the loop started with, each
\* replacement is made in the content as the earlier ones left it.
RECURSIVE Fold(_, _, _, _, _)
Fold(pattern, assets, matches, k, content) ==
  IF k > Len(matches) THEN content
  ELSE Let(Step(pattern, assets, content, matches[k]), LAMBDA replaced :
       Let(k + 1, LAMBDA next :
         Fold(pattern, assets, matches, next, replaced)))

Pass(pattern, assets, content) ==
  Let(FindIter(pattern, content, 1), LAMBDA matches :
    Fold(pattern, assets, matches, 1, content))

\* The passes in the order of the source.
Passes == << "standard", "alt", "src", "url_alt", "url" >>

\* replace_assets_in_content(content), with self.assets = assets.
replace_assets_in_content(assets, content) ==
  Let(Pass("standard", assets, content), LAMBDA c1 :
  Let(Pass("alt", assets, c1), LAMBDA c2 :
  Let(Pass("src", assets, c2), LAMBDA c3 :
  Let(Pass("url_alt", assets, c3), LAMBDA c4 :
    Pass("url", assets, c4)))))

\* ------------------------------------------------------------------------
\* The extracted tree and process_assets
\* ------------------------------------------------------------------------
\* A file of the tree is [path, readable, data, json]: its path below
\* temp_extract, whether open() succeeds, its bytes, and, for a .json file,
\* what json.load makes of it: [kind, obj] with kind "malformed" (json.load
\* raises), "scalar", "array" or "object", and obj the object's fields, each
\* a [t |-> "str" or "num", v |-> its text]. The tree is a sequence: the
\* order in which glob enumerates the files.

\* asset_file.name
Name(file) == LastSegment(file.path, "/")

\* self.temp_dir.glob('**/*<ext>') for each ext in turn, one after the other.
RECURSIVE GlobEach(_, _, _)
GlobEach(tree, exts, k) ==
  IF k > Len(exts) THEN << >>
  ELSE SelectSeq(tree, LAMBDA f : EndsWith(Name(f), exts[k])) \o GlobEach(tree, exts, k + 1)

\* (temp_dir / dir).glob('**/*.json')
GlobJson(tree, dir) ==
  SelectSeq(tree, LAMBDA f : StartsWith(f.path, dir) /\ EndsWith(Name(f), Chars(".json")))

\* (temp_dir / dir).exists(): the archive has an entry below it.
DirExists(tree, dir) == \E k \in 1..Len(tree) : StartsWith(tree[k].path, dir)

\* self.assets[asset_name] = {'content': ..., 'mime_type': ...}
Put(assets, asset_name, text, fonts) ==
  LET entry == [content |-> text, mime_type |-> get_mime_type(asset_name, fonts)]
  IN [n \in DOMAIN assets \cup {asset_name} |-> IF n = asset_name THEN entry ELSE assets[n]]

\* The body of the binary scan's loop for one file (lines 68-82).
BinaryStep(assets, file, fonts) ==
  IF ~file.readable THEN assets
  ELSE Put(assets, Name(file), B64Encode(file.data), fonts)

\* The body of the JSON descriptor loop for one file (lines 90-115).
JsonStep(assets, file, fonts) ==
  IF ~file.readable \/ file.json.kind # "object" THEN assets
  ELSE LET obj == file.json.obj
           named == "name" \in DOMAIN obj /\ obj.name.t = "str" /\ obj.name.v # << >>
           text == IF "content" \in DOMAIN obj THEN obj.content.v ELSE << >>
       IN IF ~named THEN assets
          ELSE IF EndsWith(Lower(obj.name.v), Chars(".css"))
                  \/ EndsWith(Lower(obj.name.v), Chars(".js"))
          THEN Let(decode_base64_if_needed(text), LAMBDA decoded :
                 Put(assets, obj.name.v, decoded, fonts))
          ELSE Put(assets, obj.name.v, text, fonts)

\* The body of the loose text loop for one file (lines 120-135).
TextStep(assets, file, fonts) ==
  IF Name(file) \in DOMAIN assets \/ ~file.readable THEN assets
  ELSE Let(Utf8Decode(file.data), LAMBDA read :
         IF read.ok THEN Put(assets, Name(file), read.text, fonts) ELSE assets)

ScanStep(scan, assets, file, fonts) ==
  CASE scan = "binary" -> BinaryStep(assets, file, fonts)
    [] scan = "json" -> JsonStep(assets, file, fonts)
    [] scan = "text" -> TextStep(assets, file, fonts)

\* One discovery loop over the files it enumerates.
RECURSIVE Scan(_, _, _, _, _)
Scan(scan, files, k, assets, fonts) ==
  IF k > Len(files) THEN assets
  ELSE Let(ScanStep(scan, assets, files[k], fonts), LAMBDA added :
       Let(k + 1, LAMBDA next : Scan(scan, files, next, added, fonts)))

BinaryExts ==
  << Chars(".ttf"), Chars(".woff"), Chars(".woff2"), Chars(".eot"), Chars(".svg"),
     Chars(".png"), Chars(".jpg"), Chars(".jpeg"), Chars(".gif") >>
TextExts == << Chars(".css"), Chars(".js") >>
AssetsDir == Chars("assets/")
TemplatesDir == Chars("templates/")

\* The three passes of process_assets.
BinaryScan(tree, assets, fonts) ==
  Let(GlobEach(tree, BinaryExts, 1), LAMBDA files : Scan("binary", files, 1, assets, fonts))

JsonScan(tree, assets, fonts) ==
  IF ~DirExists(tree, AssetsDir) THEN assets
  ELSE Let(GlobJson(tree, AssetsDir), LAMBDA files : Scan("json", files, 1, assets, fonts))

LooseScan(tree, assets, fonts) ==
  Let(GlobEach(tree, TextExts, 1), LAMBDA files : Scan("text", files, 1, assets, fonts))

\* ------------------------------------------------------------------------
\* process_templates
\* ------------------------------------------------------------------------

\* template['content'] = self.replace_assets_in_content(template['content'])
Rewritten(assets, obj) ==
  Let(replace_assets_in_content(assets, obj.content.v), LAMBDA text :
    [obj EXCEPT !.content = [t |-> "str", v |-> text]])

\* What the loop over the templates directory appends for one file (lines
\* 236-251): nothing when reading, json.load, .copy() or the rewrite raises.
DirTemplate(assets, file) ==
  IF ~file.readable \/ file.json.kind \in {"malformed", "scalar"} THEN << >>
  ELSE IF file.json.kind = "array" THEN << file.json >>
  ELSE IF "content" \notin DOMAIN file.json.obj THEN << file.json >>
  ELSE IF file.json.obj.content.t # "str" THEN << >>
  ELSE << [file.json EXCEPT !.obj = Rewritten(assets, file.json.obj)] >>

\* What the loop over the root's *.json appends for one file (lines 255-267).
RootTemplate(assets, file) ==
  IF Name(file) = Chars("export.json") THEN << >>
  ELSE IF ~file.readable \/ file.json.kind # "object" THEN << >>
  ELSE IF "content" \notin DOMAIN file.json.obj THEN << >>
  ELSE IF file.json.obj.content.t # "str" THEN << >>
  ELSE << [file.json EXCEPT !.obj = Rewritten(assets, file.json.obj)] >>

\* The loop with its try around the whole loop instead of inside it: the
\* first failing file ends the enumeration.
RECURSIVE CollectUntilFailure(_, _, _, _, _)
CollectUntilFailure(inDir, assets, files, k, templates) ==
  IF k > Len(files) THEN templates
  ELSE Let(IF inDir THEN DirTemplate(assets, files[k]) ELSE RootTemplate(assets, files[k]),
           LAMBDA made :
       IF made = << >> THEN templates
       ELSE Let(templates \o made, LAMBDA appended :
            Let(k + 1, LAMBDA next :
              CollectUntilFailure(inDir, assets, files, next, appended))))

\* The loop: templates.append(template) for each file in turn.
RECURSIVE Collect(_, _, _, _, _)
Collect(inDir, assets, files, k, templates) ==
  IF k > Len(files) THEN templates
  ELSE Let(templates \o (IF inDir THEN DirTemplate(assets, files[k])
                         ELSE RootTemplate(assets, files[k])), LAMBDA appended :
       Let(k + 1, LAMBDA next : Collect(inDir, assets, files, next, appended)))

\* self.temp_dir.glob('*.json'): the .json files of the root itself.
RootJson(tree) ==
  SelectSeq(tree, LAMBDA f : LastIndex(f.path, "/") = 0 /\ EndsWith(f.path, Chars(".json")))

process_templates(tree, assets) ==
  IF DirExists(tree, TemplatesDir)
  THEN Let(GlobJson(tree, TemplatesDir), LAMBDA files : Collect(TRUE, assets, files, 1, << >>))
  ELSE Let(RootJson(tree), LAMBDA files : Collect(FALSE, assets, files, 1, << >>))

\* ------------------------------------------------------------------------
\* convert's finally block
\* ------------------------------------------------------------------------

\* The cleanup written after the try block instead of in a finally: it is
\* not reached while an error is propagating.
ConvertCleanupAfterTry(exists, failing) == IF exists /\ ~failing THEN FALSE ELSE exists

\* Whether temp_extract exists after `if self.temp_dir.exists(): rmtree(...)`,
\* given whether it existed before and whether an error is propagating.
ConvertCleanup(exists, failing) == IF exists THEN FALSE ELSE exists

\* ------------------------------------------------------------------------
\* The state
\* ------------------------------------------------------------------------
VARIABLES
  assets,     \* self.assets: the registry
  fonts,      \* the platform: whether its MIME table has the system's entries
  parts,      \* resolver: the pieces (indices of Fragments) of the input
  original,   \* resolver: the content replace_assets_in_content was given
  content,    \* resolver: the local variable `content`
  pass,       \* resolver: the pass to run next (1..5), 6 once returned
  round,      \* resolver: 1 for the first application, 2 for the second
  filename,   \* classifier: the argument of get_mime_type
  mime,       \* classifier: [returned, value]: whether get_mime_type returned, and what
  pc,         \* convert: the statement convert() is at
  archive,    \* convert: the export file, [status, files]
  tempDir,    \* convert: whether temp_extract exists
  tree,       \* convert: the files below temp_extract
  templates,  \* convert: the list process_templates returned
  failing     \* convert: whether an error is propagating out of the try block

resolverVars == << parts, original, content, pass, round >>
classifierVars == << filename, mime >>
convertVars == << pc, archive, tempDir, tree, templates, failing >>
vars == << assets, fonts, resolverVars, classifierVars, convertVars >>

\* The values of the variables a specification does not use.
ResolverIdle == parts = << >> /\ original = << >> /\ content = << >> /\ pass = 0 /\ round = 0
NotCalled == [returned |-> FALSE, value |-> None]
ClassifierIdle == filename = << >> /\ mime = NotCalled
ConvertIdle ==
  /\ pc = "idle"
  /\ archive = [status |-> "ok", files |-> << >>]
  /\ tempDir = FALSE
  /\ tree = << >>
  /\ templates = << >>
  /\ failing = FALSE

\* ------------------------------------------------------------------------
\* The resolver applied to bounded inputs
\* ------------------------------------------------------------------------

\* A registry entry as process_assets records it.
Entry(name, text) == [content |-> text, mime_type |-> get_mime_type(name, TRUE)]

\* The bytes of the font file of the examples, and their registry entry
\* (the binary scan stores base64).
IconBytes == << 0, 1, 2 >>
IconEntry == Entry(Chars("icon.woff"), B64Encode(IconBytes))

\* A plain stylesheet, and one whose text itself refers to another asset.
PlainCss == Chars("p{}")
FontCss == Chars("@font-face{src:url(icon.woff)}")

\* The registries the resolver is tried with: none, text assets only, and
\* text assets with the font.
Registries ==
  LET texts == (Chars("a.css") :> Entry(Chars("a.css"), PlainCss))
               @@ (Chars("b.css") :> Entry(Chars("b.css"), FontCss))
  IN { << >>, texts, texts @@ (Chars("icon.woff") :> IconEntry) }

\* The pieces contents are made of: placeholders of the five syntaxes with
\* registered and unregistered names, url() expressions and plain text.
\* name: the asset the placeholder names; inner: the assets that placeholders
\* written inside its text name.
Fragments == <<
  [syntax |-> "standard", name |-> Chars("a.css"), inner |-> {},
   text |-> Chars("{{ asset \"a.css\" \"utf8\" }}")],
  [syntax |-> "standard", name |-> Chars("a.css"), inner |-> {},
   text |-> Chars("{{asset 'a.css' 'dataURI'}}")],
  [syntax |-> "standard", name |-> Chars("a.css"), inner |-> {},
   text |-> Chars("{{asset \"a.css\" \"hex\"}}")],
  [syntax |-> "standard", name |-> Chars("b.css"), inner |-> {},
   text |-> Chars("{{asset \"b.css\" \"utf8\"}}")],
  [syntax |-> "standard", name |-> Chars("missing.css"), inner |-> {},
   text |-> Chars("{{ asset \"missing.css\" \"utf8\" }}")],
  [syntax |-> "standard", name |-> Chars("url(icon.woff)"), inner |-> {Chars("icon.woff")},
   text |-> Chars("{{ asset \"url(icon.woff)\" \"utf8\" }}")],
  [syntax |-> "alt", name |-> Chars("icon.woff"), inner |-> {},
   text |-> Chars("{#asset icon.woff @encoding=dataURI}")],
  [syntax |-> "alt", name |-> Chars("missing.woff"), inner |-> {},
   text |-> Chars("{#asset missing.woff @encoding=dataURI}")],
  [syntax |-> "src", name |-> Chars("icon.woff"), inner |-> {},
   text |-> Chars("src=\"{{asset 'icon.woff' 'dataURI'}}\"")],
  [syntax |-> "src", name |-> Chars("missing.png"), inner |-> {},
   text |-> Chars("src=\"{{asset 'missing.png' 'dataURI'}}\"")],
  [syntax |-> "url_alt", name |-> Chars("icon.woff"), inner |-> {},
   text |-> Chars("url({#asset icon.woff @encoding=dataURI})")],
  [syntax |-> "url_alt", name |-> Chars("missing.woff"), inner |-> {},
   text |-> Chars("url({#asset missing.woff @encoding=dataURI})")],
  [syntax |-> "url", name |-> Chars("icon.woff"), inner |-> {},
   text |-> Chars("url(../fonts/icon.woff)")],
  [syntax |-> "url", name |-> Chars("missing.woff"), inner |-> {},
   text |-> Chars("url('fonts/missing.woff')")],
  [syntax |-> "text", name |-> << >>, inner |-> {},
   text |-> Chars("url(data:text/plain,fonts/icon.woff)")],
  [syntax |-> "text", name |-> << >>, inner |-> {},
   text |-> Chars("h1{} ")] >>

\* The number of pieces of a content.
MaxParts == 2

RECURSIVE Concat(_, _)
Concat(ps, k) == IF k > Len(ps) THEN << >> ELSE Fragments[ps[k]].text \o Concat(ps, k + 1)

PartLists == UNION {[1..n -> 1..Len(Fragments)] : n \in 1..MaxParts}

InitResolve ==
  /\ assets \in Registries
  /\ fonts = TRUE
  /\ parts \in PartLists
  /\ original = Concat(parts, 1)
  /\ content = original
  /\ pass = 1
  /\ round = 1
  /\ ClassifierIdle
  /\ ConvertIdle

\* One pass of replace_assets_in_content: lines 140-158, 160-179, 181-195,
\* 197-211 and 213-226.
RunPass(k) ==
  /\ pass = k
  /\ content' = Pass(Passes[k], assets, content)
  /\ pass' = k + 1
  /\ UNCHANGED << assets, fonts, parts, original, round, classifierVars, convertVars >>

StandardPass == RunPass(1)
AltPass == RunPass(2)
SrcPass == RunPass(3)
UrlAltPass == RunPass(4)
UrlPass == RunPass(5)

\* The returned content is given to replace_assets_in_content once more.
Reapply ==
  /\ pass = 6
  /\ round = 1
  /\ original' = content
  /\ pass' = 1
  /\ round' = 2
  /\ UNCHANGED << assets, fonts, parts, content, classifierVars, convertVars >>

NextResolve ==
  \/ StandardPass
  \/ AltPass
  \/ SrcPass
  \/ UrlAltPass
  \/ UrlPass
  \/ Reapply

SpecResolve == InitResolve /\ [][NextResolve]_vars

\* ------------------------------------------------------------------------
\* The classifier applied to bounded inputs
\* ------------------------------------------------------------------------

\* What precedes the extension in the file names tried: nothing (a hidden
\* file such as ".png"), a plain stem, a stem with a dot and a directory.
Stems == { << >>, Chars("a"), Chars("A.min"), Chars("dir.d/x") }

\* The endings tried: those of the code's table in both cases, the image
\* endings of the binary scan, other endings and none.
Endings ==
  { Chars(".js"), Chars(".css"), Chars(".ttf"), Chars(".woff"), Chars(".woff2"),
    Chars(".eot"), Chars(".svg"), Chars(".png"), Chars(".jpg"), Chars(".jpeg"),
    Chars(".gif"), Chars(".CSS"), Chars(".Woff2"), Chars(".PNG"), Chars(".bin"),
    Chars(".json"), Chars("."), << >> }

InitMime ==
  /\ filename \in {stem \o ending : stem \in Stems, ending \in Endings}
  /\ fonts \in BOOLEAN
  /\ mime = NotCalled
  /\ assets = << >>
  /\ ResolverIdle
  /\ ConvertIdle

\* mime_type = self.get_mime_type(filename)
Classify ==
  /\ ~mime.returned
  /\ mime' = [returned |-> TRUE, value |-> get_mime_type(filename, fonts)]
  /\ UNCHANGED << assets, fonts, filename, resolverVars, convertVars >>

NextMime == Classify

SpecMime == InitMime /\ [][NextMime]_vars

\* ------------------------------------------------------------------------
\* convert() applied to bounded archives
\* ------------------------------------------------------------------------

Str(text) == [t |-> "str", v |-> Chars(text)]
Num(text) == [t |-> "num", v |-> Chars(text)]
Object(fields) == [kind |-> "object", obj |-> fields]
Malformed == [kind |-> "malformed", obj |-> << >>]
Array == [kind |-> "array", obj |-> << >>]

\* A file that is not JSON text, and a JSON file.
Raw(path, bytes) == [path |-> Chars(path), readable |-> TRUE, data |-> bytes, json |-> Malformed]
Locked(path) == [path |-> Chars(path), readable |-> FALSE, data |-> << >>, json |-> Malformed]
Json(path, value) == [path |-> Chars(path), readable |-> TRUE, data |-> << >>, json |-> value]

\* The files archives are made of: binary assets, asset descriptors (one
\* named like a binary file, one like a loose stylesheet), a loose stylesheet,
\* template descriptors (good, unparsable, with a content that is not text,
\* without content, not an object) and root-level JSON files.
Pool == <<
  Raw("fonts/icon.woff", IconBytes),
  Raw("img/logo.png", << 137, 80, 78, 71 >>),
  Locked("img/locked.gif"),
  Json("assets/logo.json", Object([name |-> Str("logo.png"), content |-> Str("QUJD")])),
  Json("assets/style.json", Object([name |-> Str("style.css"), content |-> Str("cHt9")])),
  Raw("css/style.css", Utf8Encode(Chars("h1{}"))),
  Json("assets/bad.json", Malformed),
  Json("assets/noname.json", Object([content |-> Str("x")])),
  Json("templates/report.json",
       Object([name |-> Str("report"), recipe |-> Str("chrome-pdf"),
               content |-> Str("<img src=\"{{asset 'logo.png' 'dataURI'}}\">")])),
  Json("templates/broken.json", Malformed),
  Json("templates/num.json", Object([name |-> Str("num"), content |-> Num("5")])),
  Json("templates/plain.json", Object([name |-> Str("plain"), recipe |-> Str("html")])),
  Json("templates/list.json", Array),
  Json("main.json",
       Object([name |-> Str("main"),
               content |-> Str("<style>{{asset \"style.css\" \"utf8\"}}</style>")])),
  Json("export.json", Object([name |-> Str("export"), content |-> Str("x")])),
  Json("meta.json", Object([name |-> Str("meta")])) >>

\* The number of files of an archive.
MaxFiles == 3

RECURSIVE InOrder(_)
InOrder(S) ==
  IF S = {} THEN << >> ELSE LET m == Min(S) IN << Pool[m] >> \o InOrder(S \ {m})

\* The archives: one that opens and extracts, one that extracts all but its
\* last file and then fails, and a file zipfile cannot open.
Archives ==
  LET lists == {InOrder(S) : S \in {T \in SUBSET (1..Len(Pool)) : Cardinality(T) <= MaxFiles}}
  IN {[status |-> "ok", files |-> fs] : fs \in lists}
     \cup {[status |-> "truncated", files |-> fs] : fs \in lists \ {<< >>}}
     \cup {[status |-> "unopenable", files |-> << >>]}

Init ==
  /\ pc = "extract"
  /\ archive \in Archives
  /\ tempDir \in BOOLEAN
  /\ fonts \in BOOLEAN
  /\ assets = << >>
  /\ tree = << >>
  /\ templates = << >>
  /\ failing = FALSE
  /\ ResolverIdle
  /\ ClassifierIdle

\* extract_export (lines 22-26): mkdir(exist_ok=True), then the archive is
\* opened and extracted; either may raise.
Extract ==
  /\ pc = "extract"
  /\ tempDir' = TRUE
  /\ tree' = CASE archive.status = "ok" -> archive.files
               [] archive.status = "truncated" -> SubSeq(archive.files, 1, Len(archive.files) - 1)
               [] archive.status = "unopenable" -> << >>
  /\ failing' = (archive.status # "ok")
  /\ pc' = IF archive.status = "ok" THEN "binary" ELSE "finally"
  /\ UNCHANGED << assets, fonts, archive, templates, resolverVars, classifierVars >>

\* process_assets, lines 66-82.
ScanBinary ==
  /\ pc = "binary"
  /\ assets' = BinaryScan(tree, assets, fonts)
  /\ pc' = "json"
  /\ UNCHANGED << fonts, archive, tempDir, tree, templates, failing, resolverVars, classifierVars >>

\* process_assets, lines 85-115.
ScanJson ==
  /\ pc = "json"
  /\ assets' = JsonScan(tree, assets, fonts)
  /\ pc' = "loose"
  /\ UNCHANGED << fonts, archive, tempDir, tree, templates, failing, resolverVars, classifierVars >>

\* process_assets, lines 118-135.
ScanLoose ==
  /\ pc = "loose"
  /\ assets' = LooseScan(tree, assets, fonts)
  /\ pc' = "templates"
  /\ UNCHANGED << fonts, archive, tempDir, tree, templates, failing, resolverVars, classifierVars >>

\* templates = self.process_templates(), line 276.
ProcessTemplates ==
  /\ pc = "templates"
  /\ templates' = process_templates(tree, assets)
  /\ pc' = "finally"
  /\ UNCHANGED << assets, fonts, archive, tempDir, tree, failing, resolverVars, classifierVars >>

\* An error none of the handlers catches (they catch Exception only: a
\* KeyboardInterrupt, or an OSError while a directory is enumerated) leaves
\* asset discovery or template processing.
Fault ==
  /\ pc \in {"binary", "json", "loose", "templates"}
  /\ failing' = TRUE
  /\ pc' = "finally"
  /\ UNCHANGED << assets, fonts, archive, tempDir, tree, templates, resolverVars, classifierVars >>

\* The finally block, lines 283-287, then the return or the re-raise.
Finally ==
  /\ pc = "finally"
  /\ tempDir' = ConvertCleanup(tempDir, failing)
  /\ tree' = IF tempDir' THEN tree ELSE << >>
  /\ pc' = IF failing THEN "raised" ELSE "returned"
  /\ UNCHANGED << assets, fonts, archive, templates, failing, resolverVars, classifierVars >>

Next ==
  \/ Extract
  \/ ScanBinary
  \/ ScanJson
  \/ ScanLoose
  \/ ProcessTemplates
  \/ Fault
  \/ Finally

Spec == Init /\ [][Next]_vars

\* ------------------------------------------------------------------------
\* Properties of the resolver (checked under SpecResolve)
\* ------------------------------------------------------------------------

Contains(s, sub) == Find(s, sub, 1) # 0

\* The first application has run its standard pass and nothing else.
AfterStandardPass == round = 1 /\ pass = 2

\* The first application has returned.
Returned == round = 1 /\ pass = 6

\* The assets of Registries that were registered as raw text.
TextAssets == {Chars("a.css"), Chars("b.css")}

\* The standard tag a text is, when it is exactly one standard tag.
TagOf(text) == MatchStandard(text, 1)
IsStandardTag(text) == TagOf(text).end = Len(text) + 1

\* The input is one standard tag, naming a registered text asset in `mode`.
OneTextTag(mode) ==
  /\ IsStandardTag(original)
  /\ TagOf(original).g1 \in TextAssets \cap DOMAIN assets
  /\ TagOf(original).g2 = Chars(mode)

\* C2: a standard tag of a raw-text asset T becomes exactly T in "utf8" mode,
\* and in "dataURI" mode data:<mimeType>;base64,<B> where B is the base64
\* encoding of T, which decodes back to T.
C2_TextAssetRoundTrip ==
  LET T == assets[TagOf(original).g1].content
      mimeType == assets[TagOf(original).g1].mime_type
      B == B64Encode(Utf8Encode(T))
  IN /\ (AfterStandardPass /\ OneTextTag("utf8")) => content = T
     /\ (AfterStandardPass /\ OneTextTag("dataURI")) =>
          /\ content = Chars("data:") \o mimeType \o Chars(";base64,") \o B
          /\ Utf8Decode(B64Decode(B).bytes).text = T

\* The pieces of the input that are standard tags with a registered name and
\* a mode other than "utf8" and "dataURI".
UnknownModeTags ==
  {k \in 1..Len(parts) :
     /\ Fragments[parts[k]].syntax = "standard"
     /\ Fragments[parts[k]].name \in DOMAIN assets
     /\ TagOf(Fragments[parts[k]].text).g2 \notin {Chars("utf8"), Chars("dataURI")}}

\* C3: a standard tag whose name is registered and whose mode is neither
\* "utf8" nor "dataURI" is left in the content as it was.
C3_UnknownModeUntouched ==
  AfterStandardPass =>
    \A k \in UnknownModeTags : Contains(content, Fragments[parts[k]].text)

\* The pieces of the input that are placeholders whose name is not registered.
UnresolvedParts ==
  {k \in 1..Len(parts) :
     /\ Fragments[parts[k]].syntax # "text"
     /\ Fragments[parts[k]].name \notin DOMAIN assets}

NothingResolvable ==
  \A k \in 1..Len(parts) :
    LET f == Fragments[parts[k]] IN
    f.syntax # "text" => (f.inner \cup {f.name}) \cap DOMAIN assets = {}

UriOf(name) == DataUri(assets[name])

\* C5: url({#asset <name> @encoding=dataURI}) with a registered name comes
\* out as url("<data-uri>"), the URI in double quotes, and not as an unquoted
\* url(<data-uri>).
C5_UrlAltQuoted ==
  Returned =>
    \A k \in 1..Len(parts) :
      LET f == Fragments[parts[k]] IN
      (f.syntax = "url_alt" /\ f.name \in DOMAIN assets) =>
        /\ Contains(content, Chars("url(\"") \o UriOf(f.name) \o Chars("\")"))
        /\ ~Contains(content, Chars("url(") \o UriOf(f.name) \o Chars(")"))

\* The text holds no placeholder syntax ({{ or {#), and each url( in it is
\* followed, after blanks and an optional quote, by data: .
Clean(s) ==
  /\ ~Contains(s, Chars("{{"))
  /\ ~Contains(s, Chars("{#"))
  /\ \A i \in 1..Len(s) :
       HasAt(s, i, Chars("url")) =>
         LET op == SkipClass("space", s, i + 3)
             q == SkipClass("space", s, op + 1)
         IN At(s, op) = "(" =>
              HasAt(s, IF IsQuote(At(s, q)) THEN q + 1 ELSE q, Chars("data:"))

\* C6: content with no placeholder syntax whose url(...) all carry data:
\* URIs is returned as it was given (in the first application and in the
\* second, which is given the output of the first).
C6_ResolvedContentFixedPoint ==
  (pass = 6 /\ Clean(original)) => content = original

\* C6's case: the second application has returned, its input being resolved
\* output of the first with a quoted data: URI in a url().
C6_Witness ==
  /\ round = 2
  /\ pass = 6
  /\ Clean(original)
  /\ original # Concat(parts, 1)
  /\ Contains(original, Chars("url(\"data:"))
  /\ content = original

\* The pieces of the input are all standard "utf8" tags of registered assets.
OnlyUtf8Tags ==
  \A k \in 1..Len(parts) :
    LET f == Fragments[parts[k]] IN
    /\ f.syntax = "standard"
    /\ f.name \in DOMAIN assets
    /\ TagOf(f.text).g2 = Chars("utf8")

RECURSIVE Inlined(_)
Inlined(k) ==
  IF k > Len(parts) THEN << >>
  ELSE assets[Fragments[parts[k]].name].content \o Inlined(k + 1)

\* C9: text inserted for a placeholder is never rewritten: content made of
\* "utf8" tags of registered assets comes out as those assets' texts, one
\* after the other, verbatim.
C9_InsertedTextVerbatim ==
  (Returned /\ OnlyUtf8Tags) => content = Inlined(1)

\* ------------------------------------------------------------------------
\* Properties of the classifier (checked under SpecMime)
\* ------------------------------------------------------------------------

\* The lowercased text after the last dot of the file name, empty without a dot.
ExtensionOf(name) ==
  IF \E i \in 1..Len(name) : name[i] = "." THEN Lower(LastSegment(name, ".")) ELSE << >>

\* The entries the fallback table has for js, css, ttf, woff, woff2, eot, svg.
ListedTypes ==
  (Chars("js") :> Chars("application/javascript"))
  @@ (Chars("css") :> Chars("text/css"))
  @@ (Chars("ttf") :> Chars("font/ttf"))
  @@ (Chars("woff") :> Chars("font/woff"))
  @@ (Chars("woff2") :> Chars("font/woff2"))
  @@ (Chars("eot") :> Chars("application/vnd.ms-fontobject"))
  @@ (Chars("svg") :> Chars("image/svg+xml"))

ImageExtensions == {Chars("png"), Chars("jpg"), Chars("jpeg"), Chars("gif")}
OctetStream == Chars("application/octet-stream")

\* The system-level lookup yields nothing for the file name.
LookupYieldsNothing == GuessType(filename, fonts) = None

\* C7 as stated: get_mime_type returns a value, and when the system lookup
\* yields nothing it returns the table entry of the lowercased extension,
\* image/<ext> for png, jpg, jpeg and gif, application/octet-stream otherwise.
C7_FallbackWithImages ==
  mime.returned =>
    /\ mime.value # None
    /\ LookupYieldsNothing =>
         LET ext == ExtensionOf(filename) IN
         mime.value = IF ext \in DOMAIN ListedTypes THEN ListedTypes[ext]
                      ELSE IF ext \in ImageExtensions THEN Chars("image/") \o ext
                      ELSE OctetStream

\* C7 as amended: the table has no entry for png, jpg, jpeg and gif, which
\* map to application/octet-stream like every other extension.
C7_FallbackTable ==
  mime.returned =>
    /\ mime.value # None
    /\ LookupYieldsNothing =>
         LET ext == ExtensionOf(filename) IN
         mime.value = IF ext \in DOMAIN ListedTypes THEN ListedTypes[ext] ELSE OctetStream

\* C7's case: the lookup yielded nothing for a name whose extension is an
\* image extension, and get_mime_type returned application/octet-stream.
C7_Witness ==
  /\ mime.returned
  /\ LookupYieldsNothing
  /\ ExtensionOf(filename) \in ImageExtensions
  /\ mime.value = OctetStream

\* ------------------------------------------------------------------------
\* Properties of convert() (checked under Spec)
\* ------------------------------------------------------------------------

\* process_assets has run its three passes.
Discovered == pc = "templates"

\* C1: after the three discovery passes, every name the binary scan
\* registered still has the binary scan's value (the base64 of the file).
C1_BinaryScanValueKept ==
  Discovered =>
    Let(BinaryScan(tree, << >>, fonts), LAMBDA scanned :
      \A n \in DOMAIN scanned : n \in DOMAIN assets /\ assets[n] = scanned[n])

\* C8: whenever convert() has finished, by returning the templates or by an
\* error propagating, temp_extract does not exist.
C8_TempDirDeleted == pc \in {"returned", "raised"} => ~tempDir

\* C8's case: the archive could not be opened after the directory was
\* created, the error has left convert() and the directory is gone.
C8_Witness ==
  /\ pc = "raised"
  /\ archive.status = "unopenable"
  /\ failing
  /\ ~tempDir

\* A descriptor that fails to parse (or cannot be read), or whose content
\* is not text, so that its rewrite raises.
Fails(file) ==
  \/ ~file.readable
  \/ file.json.kind = "malformed"
  \/ /\ file.json.kind = "object"
     /\ "content" \in DOMAIN file.json.obj
     /\ file.json.obj.content.t # "str"

\* The descriptors of the archive's templates directory, in enumeration order.
Descriptors == GlobJson(archive.files, TemplatesDir)

====
